---- MODULE Spec2Model ----
(***************************************************************************)
(* A model of the GKI tracker (client/src/App.tsx): the React component    *)
(* state of App, the IndexedDB object store behind it, and the three       *)
(* asynchronous flows initDB, handleSubmit and handleDelete, each split at *)
(* its await points.                                                       *)
(*                                                                         *)
(* Numbers are JavaScript numbers restricted to one decimal digit: a       *)
(* finite number x is the record Fin(10 * x), and NaN and the infinities   *)
(* are values of their own.  Form fields are strings, as in the source.    *)
(***************************************************************************)
EXTENDS Integers, Sequences, FiniteSets, TLC

\* ------------------------------------------------------------------ bounds
MaxInFlight == 2   \* handler invocations awaiting a store result at once
MaxConns == 3      \* connections opened before the model stops opening more
MaxTicks == 1      \* milliseconds the clock can advance during the session
MaxPrior == 2      \* entries left in the store by earlier sessions
MaxGki == 120      \* largest GKI (in tenths) handed to getGKIZone

\* ----------------------------------------------------------------- numbers
Fin(n) == [kind |-> "finite", tenths |-> n]
NaN == [kind |-> "NaN", tenths |-> 0]
Infinity(sign) == [kind |-> "Infinity", tenths |-> sign]

\* What the user types into the two number fields.  The unit selector is
\* left at its initial value throughout.
GlucoseTyped == {"", "abc", "90"}
KetonesTyped == {"", "abc", "0", "-1", "1.5"}

\* The strings that are valid floating-point numbers.
ValidFloatStrings == {"0", "-1", "1.5", "90"}

\* <input type="number">: the value handed to onChange is the typed text if
\* it is a valid floating-point number and the empty string otherwise.
NumberInputValue(typed) == IF typed \in ValidFloatStrings THEN typed ELSE ""

\* parseFloat on the strings above.
parseFloat(s) ==
    CASE s = "0" -> Fin(0)
      [] s = "-1" -> Fin(-10)
      [] s = "1.5" -> Fin(15)
      [] s = "90" -> Fin(900)
      [] OTHER -> NaN

\* JavaScript truthiness of a string: only the empty string is falsy.
Truthy(s) == s # ""

Abs(n) == IF n < 0 THEN -n ELSE n
Sign(n) == IF n < 0 THEN -1 ELSE 1

\* The glucose reading in mmol/L as the fraction n/d, in tenths: mg/dL is
\* divided by 18, mmol/L is returned unchanged.
convertGlucoseToMmol(glucose, unit) ==
    IF unit = "mg/dL" THEN [n |-> glucose.tenths, d |-> 18]
    ELSE [n |-> glucose.tenths, d |-> 1]

\* Number.prototype.toFixed(1) of the quotient n/d, in tenths: the nearest
\* tenth, a tie going away from zero.
toFixed1(n, d) ==
    LET a == Abs(n)
        b == Abs(d)
    IN  Sign(n) * Sign(d) * ((2 * 10 * a + b) \div (2 * b))

\* (glucoseInMmol / ketonesValue).toFixed(1); the text is kept as the number
\* it spells.
calculateGKI(glucoseValue, ketonesValue, unit) ==
    LET g == convertGlucoseToMmol(glucoseValue, unit)
    IN  IF glucoseValue.kind = "NaN" \/ ketonesValue.kind = "NaN" THEN NaN
        ELSE IF ketonesValue.tenths = 0
             THEN (IF g.n = 0 THEN NaN ELSE Infinity(Sign(g.n)))
        ELSE Fin(toFixed1(g.n, g.d * ketonesValue.tenths))

\* ------------------------------------------------------------- getGKIZone
getGKIZone_LightClosed(gki) ==
    IF gki.kind = "NaN" THEN "none"
    ELSE IF gki.kind = "Infinity" THEN (IF gki.tenths < 0 THEN "deep" ELSE "none")
    ELSE IF gki.tenths < 10 THEN "deep"
    ELSE IF gki.tenths >= 10 /\ gki.tenths <= 30 THEN "moderate"
    ELSE IF gki.tenths >= 30 /\ gki.tenths < 60 THEN "light"
    ELSE IF gki.tenths >= 60 /\ gki.tenths < 90 THEN "mild"
    ELSE "none"

getGKIZone(gki) ==
    IF gki.kind = "NaN" THEN "none"
    ELSE IF gki.kind = "Infinity" THEN (IF gki.tenths < 0 THEN "deep" ELSE "none")
    ELSE IF gki.tenths < 10 THEN "deep"
    ELSE IF gki.tenths >= 10 /\ gki.tenths < 30 THEN "moderate"
    ELSE IF gki.tenths >= 30 /\ gki.tenths < 60 THEN "light"
    ELSE IF gki.tenths >= 60 /\ gki.tenths < 90 THEN "mild"
    ELSE "none"

\* ------------------------------------------------------------------- state
VARIABLES
    glucose,      \* useState(""): the glucose field
    ketones,      \* useState(""): the ketones field
    glucoseUnit,  \* useState("mg/dL")
    entries,      \* useState([]): the displayed history
    loading,      \* useState(true)
    dbError,      \* useState(null): the message, or NoMessage for null
    initPc,       \* where initDB stands
    store,        \* the records of object store gkiEntries
    nextKey,      \* the object store's key generator
    openConns,    \* IDBDatabase connections opened and not closed
    ops,          \* the handler invocations awaiting a store result
    now,          \* the last value new Date().getTime() returned
    alert,        \* the message of the open alert() dialog, or NoMessage
    zoneIn,       \* the argument getGKIZone was last called with
    zoneOut       \* what it returned

vars == <<glucose, ketones, glucoseUnit, entries, loading, dbError, initPc,
          store, nextKey, openConns, ops, now, alert, zoneIn, zoneOut>>

appVars == <<glucose, ketones, glucoseUnit, entries, loading, dbError, initPc,
             store, nextKey, openConns, ops, now, alert>>

zoneVars == <<zoneIn, zoneOut>>

Slots == 1..MaxInFlight

\* The messages table.  A message is a sequence of its parts; NoMessage is
\* the absence of one (null, or no dialog open).
NoMessage == <<>>
invalidInput == <<"Please enter valid glucose and ketone values. Ketones cannot be zero.">>
failedOpeningDB == <<"Failed to open database">>
failedRetrievingEntries == <<"Failed to retrieve entries">>
errorSavingEntry == <<"Failed yo save entry">>
errorSavingEntryInvalidKeyType(actualType) ==
    <<"Failed to save entry: expected a number, but got a ", actualType>>
failedToAddEntry == <<"Failed to add entry">>
failedToDeleteEntry == <<"Failed to delete entry">>
errorInitializingDatabase(reason) == <<"Error initializing database: ">> \o reason
errorSavingEntryDetailed(reason) == <<"Failed to save entry: ">> \o reason
errorDeletingEntryDetailed(reason) == <<"Failed to delete entry: ">> \o reason

\* --------------------------------------------------------------- entries
\* An Entry before it is persisted has no id field at all.
NewEntryOf(g, u, k, t) ==
    [glucose |-> parseFloat(g), glucoseUnit |-> u, ketones |-> parseFloat(k),
     gki |-> calculateGKI(parseFloat(g), parseFloat(k), u), timestamp |-> t]

\* newEntry.id = id
WithId(entry, id) ==
    [f \in DOMAIN entry \cup {"id"} |-> IF f = "id" THEN id ELSE entry[f]]

HasId(entry) == "id" \in DOMAIN entry

\* An entry an earlier session left in the store.
PriorEntry(id, t) == WithId(NewEntryOf("90", "mg/dL", "1.5", t), id)

\* objectStore.getAll(): the records in ascending key order.
RECURSIVE getAll(_)
getAll(records) ==
    IF records = {} THEN <<>>
    ELSE LET first == CHOOSE r \in records : \A q \in records : r.id <= q.id
         IN  <<first>> \o getAll(records \ {first})

\* Insert e into a list sorted by descending timestamp, after the entries
\* that compare equal (Array.prototype.sort is stable).
RECURSIVE InsertDesc(_, _)
InsertDesc(e, list) ==
    IF list = <<>> THEN <<e>>
    ELSE IF Head(list).timestamp - e.timestamp < 0 THEN <<e>> \o list
    ELSE <<Head(list)>> \o InsertDesc(e, Tail(list))

SortByTimestampDesc_Unsorted(list) == list

\* storedEntries.sort((a, b) => b.timestamp - a.timestamp)
RECURSIVE SortByTimestampDesc(_)
SortByTimestampDesc(list) ==
    IF list = <<>> THEN <<>>
    ELSE InsertDesc(list[Len(list)], SortByTimestampDesc(SubSeq(list, 1, Len(list) - 1)))

\* entries.filter((entry) => entry.id !== id)
FilterOutId(list, id) == SelectSeq(list, LAMBDA entry : entry.id # id)

\* ---------------------------------------------------------- construction
\* The component as constructed, over the store an earlier session left:
\* none (a first run) or MaxPrior entries, written one millisecond apart
\* before the present.
InitApp ==
    /\ glucose = ""
    /\ ketones = ""
    /\ glucoseUnit = "mg/dL"
    /\ entries = <<>>
    /\ loading = TRUE
    /\ dbError = NoMessage
    /\ initPc = "openDatabase"
    /\ \E n \in {0, MaxPrior} : store = {PriorEntry(i, i) : i \in 1..n}
    /\ nextKey = MaxPrior + 1
    /\ openConns = 0
    /\ ops = <<>>
    /\ now = MaxPrior
    /\ alert = NoMessage

Init ==
    /\ InitApp
    /\ zoneIn = Fin(0)
    /\ zoneOut = "pending"

\* The render's choice among its three returns.
Phase_IgnoresDbError == IF loading THEN "loading" ELSE "ready"

Phase ==
    IF loading THEN "loading"
    ELSE IF dbError # NoMessage THEN "fatal-error"
    ELSE "ready"

\* The user can act on the form and the list when they are rendered and no
\* alert() dialog blocks the page.
Interactive == Phase = "ready" /\ alert = NoMessage

\* ----------------------------------------------------------------- initDB
\* The catch block of initDB.
initDBCatch(reason) ==
    /\ dbError' = errorInitializingDatabase(reason)
    /\ loading' = FALSE
    /\ initPc' = "done"
    /\ UNCHANGED <<glucose, ketones, glucoseUnit, entries, store, nextKey,
                   openConns, ops, now, alert, zoneVars>>

\* indexedDB.open fires onerror: openDatabase rejects.
InitOpenError ==
    /\ initPc = "openDatabase"
    /\ initDBCatch(failedOpeningDB)

\* indexedDB.open fires onsuccess: openDatabase resolves with a connection
\* and initDB goes on to getAllEntries.
InitOpenSuccess ==
    /\ initPc = "openDatabase"
    /\ openConns < MaxConns
    /\ openConns' = openConns + 1
    /\ initPc' = "getAllEntries"
    /\ UNCHANGED <<glucose, ketones, glucoseUnit, entries, loading, dbError,
                   store, nextKey, ops, now, alert, zoneVars>>

\* getAll fires onerror: getAllEntries rejects.
InitGetAllError ==
    /\ initPc = "getAllEntries"
    /\ initDBCatch(failedRetrievingEntries)

\* getAll fires onsuccess: the entries are sorted and shown.
InitGetAllSuccess ==
    /\ initPc = "getAllEntries"
    /\ entries' = SortByTimestampDesc(getAll(store))
    /\ loading' = FALSE
    /\ initPc' = "done"
    /\ UNCHANGED <<glucose, ketones, glucoseUnit, dbError, store, nextKey,
                   openConns, ops, now, alert, zoneVars>>

\* ------------------------------------------------------------------- form
\* onChange of the glucose field.
SetGlucose(typed) ==
    /\ Interactive
    /\ glucose' = NumberInputValue(typed)
    /\ UNCHANGED <<ketones, glucoseUnit, entries, loading, dbError, initPc,
                   store, nextKey, openConns, ops, now, alert, zoneVars>>

\* onChange of the ketones field.
SetKetones(typed) ==
    /\ Interactive
    /\ ketones' = NumberInputValue(typed)
    /\ UNCHANGED <<glucose, glucoseUnit, entries, loading, dbError, initPc,
                   store, nextKey, openConns, ops, now, alert, zoneVars>>

\* The user closes the alert() dialog.
DismissAlert ==
    /\ alert # NoMessage
    /\ alert' = NoMessage
    /\ UNCHANGED <<glucose, ketones, glucoseUnit, entries, loading, dbError,
                   initPc, store, nextKey, openConns, ops, now, zoneVars>>

\* The values new Date().getTime() can return during the session: the clock
\* stands at MaxPrior when the component is constructed and never goes back.
Clock == MaxPrior..(MaxPrior + MaxTicks)

\* ops lists the pending invocations in the order they were made: a new one
\* goes last, one that settles leaves the list.
Pending(s, kind, stage) ==
    s \in DOMAIN ops /\ ops[s].kind = kind /\ ops[s].stage = stage

\* The bounds on a new invocation: a place among the pending ones, and a
\* connection left for it to open.
CanStart == Len(ops) < MaxInFlight /\ openConns + Len(ops) < MaxConns

Settled(s) == SubSeq(ops, 1, s - 1) \o SubSeq(ops, s + 1, Len(ops))

\* ------------------------------------------------------------ handleSubmit
\* The guard of handleSubmit.
InputRejected_NoZeroCheck(g, k) == ~Truthy(g) \/ ~Truthy(k)

InputRejected(g, k) == ~Truthy(g) \/ ~Truthy(k) \/ parseFloat(k) = Fin(0)

\* The submit event: the validation, and for valid input the new entry and
\* the call of addEntry, which awaits openDatabase.
HandleSubmit ==
    /\ Interactive
    /\ IF InputRejected(glucose, ketones)
       THEN /\ alert' = invalidInput
            /\ UNCHANGED <<ops, now>>
       ELSE /\ CanStart
            /\ \E t \in Clock :
                 /\ t >= now
                 /\ now' = t
                 /\ ops' = Append(ops,
                        [kind |-> "submit", stage |-> "openDatabase",
                         entries |-> entries,
                         newEntry |-> NewEntryOf(glucose, glucoseUnit, ketones, t)])
            /\ UNCHANGED alert
    /\ UNCHANGED <<glucose, ketones, glucoseUnit, entries, loading, dbError,
                   initPc, store, nextKey, openConns, zoneVars>>

\* The catch block of handleSubmit.
handleSubmitCatch_AddsAnyway(s, reason) ==
    /\ alert' = errorSavingEntryDetailed(reason)
    /\ entries' = <<WithId(ops[s].newEntry, nextKey)>> \o ops[s].entries
    /\ ops' = Settled(s)
    /\ UNCHANGED <<glucose, ketones, glucoseUnit, loading, dbError,
                   initPc, now, zoneVars>>

handleSubmitCatch(s, reason) ==
    /\ alert' = errorSavingEntryDetailed(reason)
    /\ ops' = Settled(s)
    /\ UNCHANGED <<glucose, ketones, glucoseUnit, entries, loading, dbError,
                   initPc, now, zoneVars>>

\* What handleSubmit does once addEntry has resolved with id.
handleSubmitResolved_OwnId(s, id) ==
    /\ entries' = <<WithId(ops[s].newEntry, Len(ops[s].entries) + 1)>> \o ops[s].entries
    /\ glucose' = ""
    /\ ketones' = ""
    /\ ops' = Settled(s)
    /\ UNCHANGED <<glucoseUnit, loading, dbError, initPc, now, alert, zoneVars>>

handleSubmitResolved(s, id) ==
    /\ entries' = <<WithId(ops[s].newEntry, id)>> \o ops[s].entries
    /\ glucose' = ""
    /\ ketones' = ""
    /\ ops' = Settled(s)
    /\ UNCHANGED <<glucoseUnit, loading, dbError, initPc, now, alert, zoneVars>>

\* addEntry: indexedDB.open fires onerror.
AddOpenError(s) ==
    /\ alert = NoMessage
    /\ Pending(s, "submit", "openDatabase")
    /\ handleSubmitCatch(s, failedOpeningDB)
    /\ UNCHANGED <<store, nextKey, openConns>>

\* addEntry: indexedDB.open fires onsuccess; the transaction is opened and
\* objectStore.add(entry) is requested.
AddOpenSuccess(s) ==
    /\ alert = NoMessage
    /\ Pending(s, "submit", "openDatabase")
    /\ openConns < MaxConns
    /\ openConns' = openConns + 1
    /\ ops' = [ops EXCEPT ![s].stage = "request"]
    /\ UNCHANGED <<glucose, ketones, glucoseUnit, entries, loading, dbError,
                   initPc, store, nextKey, now, alert, zoneVars>>

\* addEntry: the add request fires onerror; nothing was stored.
AddRequestError(s) ==
    /\ alert = NoMessage
    /\ Pending(s, "submit", "request")
    /\ handleSubmitCatch(s, failedToAddEntry)
    /\ UNCHANGED <<store, nextKey, openConns>>

\* The object store (keyPath "id", autoIncrement) takes a record: the key
\* generator's next key is written into the stored copy.
objectStoreAdd(entry) ==
    /\ store' = store \cup {WithId(entry, nextKey)}
    /\ nextKey' = nextKey + 1

\* addEntry: the add request fires onsuccess with a numeric key.
AddRequestSuccess(s) ==
    /\ alert = NoMessage
    /\ Pending(s, "submit", "request")
    /\ objectStoreAdd(ops[s].newEntry)
    /\ handleSubmitResolved(s, nextKey)
    /\ UNCHANGED openConns

\* addEntry: the add request fires onsuccess, but request.result is
\* undefined or not a number (a substituted backend): the promise rejects.
AddRequestBadKey(s, actualType) ==
    /\ alert = NoMessage
    /\ Pending(s, "submit", "request")
    /\ objectStoreAdd(ops[s].newEntry)
    /\ handleSubmitCatch(s, IF actualType = "undefined" THEN errorSavingEntry
                            ELSE errorSavingEntryInvalidKeyType(actualType))
    /\ UNCHANGED openConns

\* ------------------------------------------------------------ handleDelete
\* The click on an entry's delete button: handleDelete(entry.id) returns at
\* once for an undefined id or a declined confirm(), and otherwise calls
\* deleteEntry, which awaits openDatabase.
HandleDelete(i, confirmed) ==
    /\ Interactive
    /\ i \in 1..Len(entries)
    /\ IF HasId(entries[i]) /\ confirmed
       THEN /\ CanStart
            /\ ops' = Append(ops,
                       [kind |-> "delete", stage |-> "openDatabase",
                        entries |-> entries, id |-> entries[i].id])
       ELSE UNCHANGED ops
    /\ UNCHANGED <<glucose, ketones, glucoseUnit, entries, loading, dbError,
                   initPc, store, nextKey, openConns, now, alert, zoneVars>>

\* The catch block of handleDelete.
handleDeleteCatch(s, reason) ==
    /\ alert' = errorDeletingEntryDetailed(reason)
    /\ ops' = Settled(s)
    /\ UNCHANGED <<glucose, ketones, glucoseUnit, entries, loading, dbError,
                   initPc, now, zoneVars>>

\* What handleDelete does once deleteEntry has resolved.
handleDeleteResolved(s) ==
    /\ entries' = FilterOutId(ops[s].entries, ops[s].id)
    /\ ops' = Settled(s)
    /\ UNCHANGED <<glucose, ketones, glucoseUnit, loading, dbError, initPc,
                   now, alert, zoneVars>>

\* deleteEntry: indexedDB.open fires onerror.
DeleteOpenError(s) ==
    /\ alert = NoMessage
    /\ Pending(s, "delete", "openDatabase")
    /\ handleDeleteCatch(s, failedOpeningDB)
    /\ UNCHANGED <<store, nextKey, openConns>>

\* deleteEntry: indexedDB.open fires onsuccess; the transaction is opened
\* and objectStore.delete(id) is requested.
DeleteOpenSuccess(s) ==
    /\ alert = NoMessage
    /\ Pending(s, "delete", "openDatabase")
    /\ openConns < MaxConns
    /\ openConns' = openConns + 1
    /\ ops' = [ops EXCEPT ![s].stage = "request"]
    /\ UNCHANGED <<glucose, ketones, glucoseUnit, entries, loading, dbError,
                   initPc, store, nextKey, now, alert, zoneVars>>

\* deleteEntry: the delete request fires onerror; nothing was removed.
DeleteRequestError(s) ==
    /\ alert = NoMessage
    /\ Pending(s, "delete", "request")
    /\ handleDeleteCatch(s, failedToDeleteEntry)
    /\ UNCHANGED <<store, nextKey, openConns>>

\* The object store drops the record under the key, if there is one.
objectStoreDelete(id) ==
    /\ store' = {r \in store : r.id # id}
    /\ UNCHANGED nextKey

\* deleteEntry: the delete request fires onsuccess.
DeleteRequestSuccess(s) ==
    /\ alert = NoMessage
    /\ Pending(s, "delete", "request")
    /\ objectStoreDelete(ops[s].id)
    /\ handleDeleteResolved(s)
    /\ UNCHANGED openConns

\* --------------------------------------------------------------- render
\* The list item of entry i is rendered: getGKIZone(parseFloat(entry.gki)).
RenderZone(gki) ==
    /\ zoneOut = "pending"
    /\ zoneIn = gki
    /\ zoneOut' = getGKIZone(gki)
    /\ UNCHANGED <<zoneIn, appVars>>

\* ------------------------------------------------------- specifications
Succeeding ==
    \/ InitOpenSuccess
    \/ InitGetAllSuccess
    \/ \E typed \in GlucoseTyped : SetGlucose(typed)
    \/ \E typed \in KetonesTyped : SetKetones(typed)
    \/ DismissAlert
    \/ HandleSubmit
    \/ \E s \in Slots : AddOpenSuccess(s)
    \/ \E s \in Slots : AddRequestSuccess(s)
    \/ \E i \in 1..(MaxPrior + MaxConns), confirmed \in BOOLEAN : HandleDelete(i, confirmed)
    \/ \E s \in Slots : DeleteOpenSuccess(s)
    \/ \E s \in Slots : DeleteRequestSuccess(s)

Failing ==
    \/ InitOpenError
    \/ InitGetAllError
    \/ \E s \in Slots : AddOpenError(s)
    \/ \E s \in Slots : AddRequestError(s)
    \/ \E s \in Slots, actualType \in {"undefined", "string"} : AddRequestBadKey(s, actualType)
    \/ \E s \in Slots : DeleteOpenError(s)
    \/ \E s \in Slots : DeleteRequestError(s)

Next == Succeeding \/ Failing

\* The application, every store request free to succeed or fail.
Spec == Init /\ [][Next]_vars

\* The application when every store operation succeeds.
NextAllSucceed == Succeeding
SpecAllSucceed == Init /\ [][NextAllSucceed]_vars

\* getGKIZone on its own, over every GKI from 0 to MaxGki tenths.
InitZone ==
    /\ InitApp
    /\ store = {}
    /\ zoneIn \in {Fin(n) : n \in 0..MaxGki}
    /\ zoneOut = "pending"

NextZone == \E n \in 0..MaxGki : RenderZone(Fin(n))
SpecZone == InitZone /\ [][NextZone]_vars

\* ------------------------------------------------------------- properties
\* The steps in which addEntry rejects and handleSubmit catches.
SubmitRejects(s) ==
    \/ AddOpenError(s)
    \/ AddRequestError(s)
    \/ \E actualType \in {"undefined", "string"} : AddRequestBadKey(s, actualType)

\* The steps in which deleteEntry rejects and handleDelete catches.
DeleteRejects(s) == DeleteOpenError(s) \/ DeleteRequestError(s)

\* C1: a step in which a pending handleSubmit settles because addEntry
\* rejected, or a pending handleDelete because deleteEntry rejected, leaves
\* the displayed entries exactly as they were (nothing added, nothing
\* removed) and opens an alert with the save or delete error message.
C1_FailedOperationKeepsList ==
    [][Len(ops') < Len(ops) =>
          \A s \in DOMAIN ops :
             /\ SubmitRejects(s) =>
                   /\ entries' = entries
                   /\ alert = NoMessage
                   /\ alert' # NoMessage /\ alert'[1] = "Failed to save entry: "
             /\ DeleteRejects(s) =>
                   /\ entries' = entries
                   /\ alert = NoMessage
                   /\ alert' # NoMessage /\ alert'[1] = "Failed to delete entry: "]_vars

\* A failed add request has been reported while the list shows entries.
C1_Witness ==
    /\ alert = errorSavingEntryDetailed(failedToAddEntry)
    /\ entries # <<>>
    /\ ops = <<>>

\* C2: the two flags give exactly one of the phases loading, fatal-error and
\* ready; a submit or delete is pending, an alert is open or a connection of
\* a write is being used only when loading is off and dbError is null, and
\* loading is on exactly while initDB has not finished.
C2_ActionsOnlyWhenReady ==
    /\ Phase \in {"loading", "fatal-error", "ready"}
    /\ (Phase = "loading") = loading
    /\ (Phase = "fatal-error") = (~loading /\ dbError # NoMessage)
    /\ (Phase = "ready") = (~loading /\ dbError = NoMessage)
    /\ loading = (initPc # "done")
    /\ ops # <<>> => ~loading /\ dbError = NoMessage
    /\ alert # NoMessage => ~loading /\ dbError = NoMessage
    /\ loading \/ dbError # NoMessage =>
          /\ glucose = "" /\ ketones = ""
          /\ nextKey = MaxPrior + 1

\* A write is under way in the ready phase.
C2_Witness ==
    /\ Phase = "ready"
    /\ \E s \in DOMAIN ops : ops[s].kind = "submit" /\ ops[s].stage = "request"

\* C3: the persistent error state is entered only when openDatabase
\* rejects: a failed read of the entries after a successful open does not
\* set dbError.
C3_RetrievalFailureNotFatal ==
    dbError \in {NoMessage, errorInitializingDatabase(failedOpeningDB)}

\* A form value that is missing or not a number.
MissingOrNonNumeric(text) == text = "" \/ parseFloat(text).kind = "NaN"

\* C4: a submit with a glucose or ketones value that is missing or not a
\* number, or with ketones equal to zero, opens the alert with the combined
\* validation message and does nothing else: no invocation is pending, no
\* connection is opened, the store and the displayed entries are unchanged.
C4_InvalidInputRejected ==
    [][HandleSubmit /\ (\/ MissingOrNonNumeric(glucose)
                        \/ MissingOrNonNumeric(ketones)
                        \/ parseFloat(ketones).tenths = 0)
        => /\ alert' = invalidInput
           /\ UNCHANGED <<ops, openConns, store, nextKey, entries>>]_vars

\* A zero ketones value has been rejected.
C4_Witness ==
    /\ alert = invalidInput
    /\ glucose = "90"
    /\ ketones = "0"

\* ketones > 0
PositiveKetones(entry) ==
    entry.ketones.kind = "finite" /\ entry.ketones.tenths > 0

\* C5: every entry in the store and every displayed entry has ketones
\* strictly greater than zero.
C5_KetonesPositive ==
    /\ \A r \in store : PositiveKetones(r)
    /\ \A i \in DOMAIN entries : PositiveKetones(entries[i])

\* C6: the entry handed to addEntry has no id; stored entries have ids from
\* the store's key generator, distinct for distinct entries; a displayed
\* entry has an id, and it is the entry stored under that id while one is;
\* the id addEntry resolves with is the one the entry was stored under and
\* the one the displayed entry gets; no stored entry changes under its id.
C6_IdsAssignedByStore ==
    /\ [](/\ \A s \in DOMAIN ops :
               ops[s].kind = "submit" => ~HasId(ops[s].newEntry)
          /\ \A r \in store : HasId(r) /\ r.id \in 1..(nextKey - 1)
          /\ \A r, q \in store : r.id = q.id => r = q
          /\ \A i \in DOMAIN entries :
               /\ HasId(entries[i])
               /\ entries[i].id \in 1..(nextKey - 1)
               /\ \A r \in store : r.id = entries[i].id => r = entries[i])
    /\ [][/\ store' # store =>
               \A r \in store : \A q \in store' : q.id = r.id => q = r
          /\ Len(ops') < Len(ops) =>
               \A s \in DOMAIN ops : AddRequestSuccess(s) =>
                   /\ entries' # <<>>
                   /\ entries'[1] \in store' \ store
                   /\ entries'[1] = WithId(ops[s].newEntry, nextKey)]_vars

\* A created entry is displayed and stored under the same id, beside the
\* entries of an earlier session.
C6_Witness ==
    /\ Len(entries) = MaxPrior + 1
    /\ entries[1].id = MaxPrior + 1
    /\ entries[1] \in store
    /\ Cardinality(store) = MaxPrior + 1

\* No initDB, handleSubmit or handleDelete is awaiting the store.
Quiescent == initPc = "done" /\ ops = <<>>

\* C7: whenever no store operation is in flight, no connection is open.
C7_NoConnectionHeld == Quiescent => openConns = 0

\* The band the table of zones gives a GKI of g tenths.
ZoneOfTable(g) ==
    CASE g < 10 -> "deep"
      [] 10 <= g /\ g < 30 -> "moderate"
      [] 30 <= g /\ g < 60 -> "light"
      [] 60 <= g /\ g < 90 -> "mild"
      [] g >= 90 -> "none"

\* C8: for every GKI >= 0, getGKIZone returns one of the five zones, the
\* one whose band holds the value, and the bounds 1, 3, 6 and 9 fall in
\* moderate, light, mild and none.
C8_ZonesPartition ==
    zoneOut # "pending" =>
        LET g == zoneIn.tenths
        IN  /\ zoneIn.kind = "finite" /\ g >= 0
            /\ zoneOut \in {"deep", "moderate", "light", "mild", "none"}
            /\ Cardinality({b \in {<<0, 10>>, <<10, 30>>, <<30, 60>>, <<60, 90>>} :
                               b[1] <= g /\ g < b[2]} \cup
                           (IF g >= 90 THEN {<<90>>} ELSE {})) = 1
            /\ zoneOut = ZoneOfTable(g)
            /\ g = 10 => zoneOut = "moderate"
            /\ g = 30 => zoneOut = "light"
            /\ g = 60 => zoneOut = "mild"
            /\ g = 90 => zoneOut = "none"

\* The bound 3.0 has been classified.
C8_Witness == zoneIn = Fin(30) /\ zoneOut = "light"

\* The ids of a list or set of entries.
IdsOfList(list) == {list[i].id : i \in DOMAIN list}
IdsOfStore == {r.id : r \in store}

\* C9: when every store operation succeeds, once nothing is in flight the
\* displayed entries are exactly the stored ones.
C9_ListMatchesStore == Quiescent /\ ~loading => IdsOfList(entries) = IdsOfStore

\* C10: in the ready phase the displayed entries are in non-increasing
\* order of timestamp.
C10_ReverseChronological ==
    Phase = "ready" =>
        \A i, j \in DOMAIN entries :
            i < j => entries[i].timestamp >= entries[j].timestamp

\* A created entry heads the sorted entries of an earlier session.
C10_Witness ==
    /\ Phase = "ready"
    /\ Len(entries) = MaxPrior + 1
    /\ entries[1].id = MaxPrior + 1
    /\ \A i \in 1..MaxPrior : entries[i].timestamp > entries[i + 1].timestamp

====
